---- MODULE Spec2Model ----
(***************************************************************************)
(* Premium key lifecycle of the TBGKG bot: the JSON-backed key stores of   *)
(* the two cogs, the backing file premium_keys.json, the secondary SQL     *)
(* table, the redeem handler, the admin key view, and the expiry task.     *)
(***************************************************************************)
EXTENDS Integers, Sequences, FiniteSets, TLC

\* ------------------------------------------------------------------ bounds
MaxKeys == 2          \* keys ever generated (uuid4 values, never reused)
MaxUsers == 2         \* guild members that act
MaxTime == 2          \* wall-clock ticks
MaxDur == 2           \* largest duration entered, in ticks
MaxReq == 2           \* redeem modal submissions
MaxBoots == 1         \* process restarts
MaxTasks == 2         \* check_expired_keys tasks started by on_ready
MaxAdmins == 1        \* members allowed to run /generate
MaxCalls == 3         \* direct calls of KeysDatabase methods
MaxLen == 5           \* characters of a duration text
MaxStarts == 2        \* process restarts where the admin commands' saves are followed up

Keys == 1..MaxKeys
Users == 1..MaxUsers
Admins == 1..MaxAdmins
Durations == 1..MaxDur
NoUser == 0           \* user_id_redeemed = None

\* ------------------------------------------------------- timestamps, records
\* A timestamp field is a datetime object or its ISO-8601 text.
Dt(t) == [kind |-> "datetime", t |-> t]
Iso(t) == [kind |-> "str", t |-> t]

\* datetime.isoformat(), applied only to datetime objects (save_keys).
IsoFormat(x) == IF x.kind = "datetime" THEN Iso(x.t) ELSE x

\* datetime.fromisoformat() of a text written by isoformat().
FromIsoFormat(x) == IF x.kind = "str" THEN Dt(x.t) ELSE x

EmptyStore == [k \in {} |-> 0]

\* KeysDatabase.save_keys: the dictionary as written to premium_keys.json.
SaveKeys(keys) ==
    [k \in DOMAIN keys |->
        [keys[k] EXCEPT !.expiry_date = IsoFormat(@), !.created_at = IsoFormat(@)]]

\* load_keys that leaves the dictionary as it was when the file cannot be read.
LoadKeysKeepsOnError(keys, f, ok) ==
    IF ok THEN [k \in DOMAIN f |-> [f[k] EXCEPT !.expiry_date = FromIsoFormat(@)]]
    ELSE keys

\* load_keys that takes its fallback date for every record.
LoadKeysFallbackDate(f) ==
    [k \in DOMAIN f |-> [f[k] EXCEPT !.expiry_date = Dt(0)]]

\* KeysDatabase.load_keys: only expiry_date is converted back to a datetime.
LoadKeys(f) ==
    [k \in DOMAIN f |-> [f[k] EXCEPT !.expiry_date = FromIsoFormat(@)]]

\* KeysDatabase.load_keys called on a store that holds keys: open, json.load
\* or the conversion of a record raises (ok is FALSE) and the except clause
\* sets the dictionary to {}.
LoadKeysTry(keys, f, ok) == IF ok THEN LoadKeys(f) ELSE EmptyStore

\* premium_keys.json after a save_keys that raised: as it was when open()
\* raised; when json.dump raised after open() had truncated the file, a file
\* that no longer parses, from which every later load gets the store {}.
SaveKeysFailed(f, opened) == IF opened THEN EmptyStore ELSE f

\* The dictionary after KeysDatabase.add_key (the save is done by the caller
\* of this operator, on the resulting dictionary).
AddKey(keys, key, duration_seconds, expiry_date, user_id_created, user_id_redeemed, t) ==
    [k \in DOMAIN keys \cup {key} |->
        IF k = key
        THEN [duration_seconds |-> duration_seconds,
              expiry_date |-> expiry_date,
              user_id_created |-> user_id_created,
              user_id_redeemed |-> user_id_redeemed,
              created_at |-> Dt(t)]
        ELSE keys[k]]

\* update_key_redeemed that leaves the redeemer of a redeemed record in place.
UpdateKeyRedeemedOnce(keys, key, user_id_redeemed) ==
    IF key \in DOMAIN keys /\ keys[key].user_id_redeemed = NoUser
    THEN [keys EXCEPT ![key].user_id_redeemed = user_id_redeemed]
    ELSE keys

\* KeysDatabase.update_key_redeemed: no check of prior redemption or expiry.
UpdateKeyRedeemed(keys, key, user_id_redeemed) ==
    IF key \in DOMAIN keys
    THEN [keys EXCEPT ![key].user_id_redeemed = user_id_redeemed]
    ELSE keys

\* update_key_duration that counts the new duration from created_at.
UpdateKeyDurationFromCreation(keys, key, duration_seconds, new_expiry_date) ==
    IF key \in DOMAIN keys
    THEN [keys EXCEPT ![key].duration_seconds = duration_seconds,
                      ![key].expiry_date = Dt(keys[key].created_at.t + duration_seconds)]
    ELSE keys

\* KeysDatabase.update_key_duration.
UpdateKeyDuration(keys, key, duration_seconds, new_expiry_date) ==
    IF key \in DOMAIN keys
    THEN [keys EXCEPT ![key].duration_seconds = duration_seconds,
                      ![key].expiry_date = new_expiry_date]
    ELSE keys

\* KeysDatabase.delete_key.
DeleteKey(keys, key) == [k \in DOMAIN keys \ {key} |-> keys[k]]

\* KeysDatabase.get_keys_for_user.
GetKeysForUser(keys, user_id) ==
    {k \in DOMAIN keys : keys[k].user_id_redeemed = user_id}

\* has_active_keys with a key counted as active at the instant it expires.
HasActiveKeysAtExpiry(keys, user_id, t) ==
    \E k \in GetKeysForUser(keys, user_id) : keys[k].expiry_date.t >= t

\* KeysDatabase.has_active_keys: some key redeemed by the user expires after t.
HasActiveKeys(keys, user_id, t) ==
    \E k \in GetKeysForUser(keys, user_id) : keys[k].expiry_date.t > t

\* get_active_keys with a key counted as active at the instant it expires.
GetActiveKeysAtExpiry(keys, t) ==
    {k \in DOMAIN keys : FromIsoFormat(keys[k].expiry_date).t >= t}

\* KeysDatabase.get_active_keys: the ids of the records that expire after t,
\* redeemed or not.
GetActiveKeys(keys, t) ==
    {k \in DOMAIN keys : FromIsoFormat(keys[k].expiry_date).t > t}

\* get_expired_keys with its user_id_redeemed test turned around.
GetExpiredKeysUnredeemed(keys, t) ==
    {k \in DOMAIN keys :
        FromIsoFormat(keys[k].expiry_date).t <= t /\ keys[k].user_id_redeemed = NoUser}

\* KeysDatabase.get_expired_keys: the ids, in the order the loop visits them.
GetExpiredKeys(keys, t) ==
    {k \in DOMAIN keys :
        FromIsoFormat(keys[k].expiry_date).t <= t /\ keys[k].user_id_redeemed # NoUser}

\* cleanup_expired_keys that deletes what it finds.
CleanupDeletesExpired(keys, t) ==
    [k \in DOMAIN keys \ GetExpiredKeys(keys, t) |-> keys[k]]

\* The dictionary after KeysDatabase.cleanup_expired_keys: the expired redeemed
\* keys are counted for the log line and nothing is deleted.
CleanupExpiredKeys(keys, t) == keys

\* ------------------------------------------------------------ the two syncs
\* sync_json_to_db: rows for the keys of the file that the table lacks; rows
\* that exist are left as they are.
SyncJsonToDb(f, d) ==
    LET json_keys == LoadKeys(f) IN
    [k \in DOMAIN d \cup DOMAIN json_keys |->
        IF k \in DOMAIN d
        THEN d[k]
        ELSE [duration_seconds |-> json_keys[k].duration_seconds,
              expiry_date |-> FromIsoFormat(json_keys[k].expiry_date),
              user_id_created |-> json_keys[k].user_id_created,
              user_id_redeemed |-> json_keys[k].user_id_redeemed,
              created_at |-> FromIsoFormat(json_keys[k].created_at)]]

\* sync_db_to_json: the file after the sync run at time t. Keys of the table
\* that the file lacks are added; for keys in both, the file's
\* user_id_redeemed is overwritten with the table's. Nothing is written when
\* nothing differs.
SyncDbToJson(f, d, t) ==
    LET json_keys == LoadKeys(f)
        synced == [k \in DOMAIN json_keys \cup DOMAIN d |->
            IF k \notin DOMAIN json_keys
            THEN [duration_seconds |-> d[k].duration_seconds,
                  expiry_date |-> d[k].expiry_date,
                  user_id_created |-> d[k].user_id_created,
                  user_id_redeemed |-> d[k].user_id_redeemed,
                  created_at |-> Dt(t)]
            ELSE IF k \in DOMAIN d
                    /\ json_keys[k].user_id_redeemed # d[k].user_id_redeemed
                 THEN [json_keys[k] EXCEPT !.user_id_redeemed = d[k].user_id_redeemed]
                 ELSE json_keys[k]]
    IN IF synced = json_keys THEN f ELSE SaveKeys(synced)

\* ---------------------------------------------------------- duration texts
\* A text is a sequence of characters; these are the characters tried.
Digit == {"0", "1", "2"}
Unit == {"s", "m", "h", "d", "w"}
Chars == Digit \cup Unit \cup {"D", "x", " "}
Texts == UNION {[1..n -> Chars] : n \in 0..MaxLen}

\* str.lower() on these characters.
Lower(text) == [i \in 1..Len(text) |-> IF text[i] = "D" THEN "d" ELSE text[i]]

\* str.strip() on these characters.
RECURSIVE Strip(_)
Strip(text) ==
    IF text = <<>> THEN text
    ELSE IF Head(text) = " " THEN Strip(Tail(text))
    ELSE IF text[Len(text)] = " " THEN Strip(SubSeq(text, 1, Len(text) - 1))
    ELSE text

DigitValue(c) == CASE c = "0" -> 0 [] c = "1" -> 1 [] c = "2" -> 2

\* int() of a text of digits.
RECURSIVE IntOf(_)
IntOf(digits) ==
    IF digits = <<>> THEN 0
    ELSE 10 * IntOf(SubSeq(digits, 1, Len(digits) - 1)) + DigitValue(digits[Len(digits)])

\* The table of parse_duration with a week of seven hours.
UnitSecondsShortWeek(unit) ==
    CASE unit = "d" -> 86400
      [] unit = "h" -> 3600
      [] unit = "m" -> 60
      [] unit = "s" -> 1
      [] unit = "w" -> 25200

\* The seconds of a unit, as both branches of parse_duration have them.
UnitSeconds(unit) ==
    CASE unit = "d" -> 86400
      [] unit = "h" -> 3600
      [] unit = "m" -> 60
      [] unit = "s" -> 1
      [] unit = "w" -> 604800

\* The index after the run of digits that starts at i.
RECURSIVE RunEnd(_, _)
RunEnd(text, i) ==
    IF i <= Len(text) /\ text[i] \in Digit THEN RunEnd(text, i + 1) ELSE i

\* re.findall(r'(\d+[dhmsw])', text) from index i on: the matches from left to
\* right, without overlap; what lies between them is passed over.
RECURSIVE FindAll(_, _)
FindAll(text, i) ==
    IF i > Len(text) THEN <<>>
    ELSE LET e == RunEnd(text, i)
         IN IF e > i /\ e <= Len(text) /\ text[e] \in Unit
            THEN <<SubSeq(text, i, e)>> \o FindAll(text, e + 1)
            ELSE FindAll(text, i + 1)

IsDigit(c) == c \in Digit

\* The loop over complex_matches: value of the digits times the unit's seconds.
RECURSIVE TotalSeconds(_)
TotalSeconds(parts) ==
    IF parts = <<>> THEN 0
    ELSE LET part == Head(parts)
             digits == SelectSeq(part, IsDigit)
         IN (IF digits # <<>> THEN IntOf(digits) * UnitSeconds(part[Len(part)]) ELSE 0)
            + TotalSeconds(Tail(parts))

\* re.match(r'^(\d+)([dhmsw])$', text) matches.
SimpleMatch(text) ==
    /\ Len(text) >= 2
    /\ text[Len(text)] \in Unit
    /\ \A i \in 1..(Len(text) - 1) : text[i] \in Digit

\* What parse_duration gives: seconds, or a ValueError of one of two kinds.
Seconds(n) == [error |-> "none", seconds |-> n]
ValueError(kind) == [error |-> kind, seconds |-> 0]

\* utils.time_utils.parse_duration.
ParseDuration(duration_str) ==
    LET text == Strip(Lower(duration_str))
        complex_matches == FindAll(text, 1)
    IN IF Len(complex_matches) > 1
       THEN Seconds(TotalSeconds(complex_matches))
       ELSE IF ~SimpleMatch(text)
            THEN ValueError("InvalidFormat")
            ELSE LET value == IntOf(SubSeq(text, 1, Len(text) - 1))
                 IN IF value <= 0
                    THEN ValueError("NonPositive")
                    ELSE Seconds(value * UnitSeconds(text[Len(text)]))

\* utils.time_utils.format_duration: the number, the unit word and whether
\* the word has its plural s.
FormatDuration(seconds) ==
    IF seconds < 60
    THEN [count |-> seconds, unit |-> "second", plural |-> TRUE]
    ELSE IF seconds < 3600
    THEN [count |-> seconds \div 60, unit |-> "minute", plural |-> (seconds \div 60) # 1]
    ELSE IF seconds < 86400
    THEN [count |-> seconds \div 3600, unit |-> "hour", plural |-> (seconds \div 3600) # 1]
    ELSE IF seconds < 604800
    THEN [count |-> seconds \div 86400, unit |-> "day", plural |-> (seconds \div 86400) # 1]
    ELSE [count |-> seconds \div 604800, unit |-> "week", plural |-> (seconds \div 604800) # 1]

NoFormat == [count |-> 0, unit |-> "none", plural |-> FALSE]
NoDuration == [n |-> 0, text |-> <<>>, parsed |-> ValueError("none yet"), formatted |-> NoFormat]

\* ------------------------------------------------------------------- state
VARIABLES
    now,          \* datetime.now()
    generated,    \* number of uuid4 keys drawn so far
    km,           \* KeyManagement.keys_db.keys
    adm,          \* AdminCommands.keys_db.keys
    file,         \* premium_keys.json
    db,           \* table premium_keys
    members,      \* members of the guild that owns the premium role
    role,         \* members holding the premium role
    reqs,         \* KeyRedeemModal submissions, in order of submission
    boots,        \* process starts so far
    rc,           \* the check_expired_keys tasks
    views,        \* KeyManagementView objects: the key_data each one holds
    delPending,   \* key_data of confirm_button handlers suspended after the delete
    redeemLog,    \* per key, the users of the log lines "Key ... redeemed by user ..."
    api,          \* the last direct call of a KeysDatabase method and what it returned
    dur           \* a duration text, what parse_duration and format_duration made of it

vars == <<now, generated, km, adm, file, db, members, role, reqs, boots, rc,
          views, delPending, redeemLog, api, dur>>

Tasks == 1..MaxTasks
TaskOff == [pc |-> "off", keys |-> <<>>, log |-> <<>>]

NoCall ==
    [n |-> 0, op |-> "none", key |-> 0, ret |-> "none", before |-> EmptyStore, at |-> 0,
     io |-> "none", user |-> NoUser]

Init ==
    /\ now = 0
    /\ generated = 0
    /\ km = EmptyStore
    /\ adm = EmptyStore
    /\ file = EmptyStore
    /\ db = EmptyStore
    /\ members = Users
    /\ role = {}
    /\ reqs = <<>>
    /\ boots = 0
    /\ rc = [t \in Tasks |-> TaskOff]
    /\ views = {}
    /\ delPending = {}
    /\ redeemLog = [k \in Keys |-> <<>>]
    /\ api = NoCall
    /\ dur = NoDuration

\* The clock advances.
Tick ==
    /\ now < MaxTime
    /\ now' = now + 1
    /\ UNCHANGED <<dur, api, generated, km, adm, file, db, members, role, reqs, boots, rc,
                   views, delPending, redeemLog>>

\* A member leaves the guild; the role goes with the membership.
Leave(u) ==
    /\ u \in members
    /\ members' = members \ {u}
    /\ role' = role \ {u}
    /\ UNCHANGED <<dur, api, now, generated, km, adm, file, db, reqs, boots, rc, views,
                   delPending, redeemLog>>

\* ---------------------------------------------------------------- generate
\* KeyManagement.generate_key with a duration that parses to duration_seconds.
GenerateKey(u, duration_seconds) ==
    /\ generated < MaxKeys
    /\ u \in members \cap Admins
    /\ LET key == generated + 1
           keys1 == AddKey(km, key, duration_seconds, Dt(now + duration_seconds),
                           u, NoUser, now)
       IN /\ km' = keys1
          /\ file' = SyncDbToJson(SaveKeys(keys1), db, now)
    /\ generated' = generated + 1
    /\ UNCHANGED <<dur, api, now, adm, db, members, role, reqs, boots, rc, views, delPending, redeemLog>>

\* The duration texts tried on /generate: one and two seconds, a zero, a sum
\* of zeros and a text that is no duration.
GenerateTexts ==
    {<<"1", "s">>, <<"2", "s">>, <<"0", "s">>, <<"0", "s", "0", "m">>, <<"x">>}

\* generate_key without its test of duration_seconds <= 0.
GenerateAddsWithoutSignTest(parsed) == parsed.error = "none"

\* Whether generate_key goes on to add_key: parse_duration has returned and
\* what it returned is positive.
GenerateAdds(parsed) == parsed.error = "none" /\ parsed.seconds > 0

\* What generate_key answers when it does not go on.
GenerateReply(parsed) ==
    IF parsed.error = "none" THEN "Invalid Duration" ELSE "Invalid Format"

\* KeyManagement.generate_key on the text the caller typed: parse_duration,
\* then either the error reply or the key.
GenerateKeyFrom(u, duration_str) ==
    /\ generated < MaxKeys
    /\ u \in members \cap Admins
    /\ LET parsed == ParseDuration(duration_str)
       IN IF GenerateAdds(parsed)
          THEN GenerateKey(u, parsed.seconds)
          ELSE /\ api' = [NoCall EXCEPT !.op = "generate", !.ret = GenerateReply(parsed)]
               /\ UNCHANGED <<dur, now, generated, km, adm, file, db, members, role,
                              reqs, boots, rc, views, delPending, redeemLog>>

\* ------------------------------------------------------------------ redeem
\* KeyRedeemModal.on_submit up to its first await: the modal is submitted and
\* the response deferred.
RedeemSubmit(u, key) ==
    /\ Len(reqs) < MaxReq
    /\ u \in members
    /\ reqs' = Append(reqs, [pc |-> "deferred", user |-> u, key |-> key,
                             result |-> "none"])
    /\ UNCHANGED <<dur, api, now, generated, km, adm, file, db, members, role, boots, rc,
                   views, delPending, redeemLog>>

\* on_submit without its check of user_id_redeemed.
RedeemCheckNoRedeemedTest(keys, key, t, roleFound) ==
    IF key \notin DOMAIN keys THEN "NotFound"
    ELSE IF t > keys[key].expiry_date.t THEN "Expired"
    ELSE IF ~roleFound THEN "RoleNotFound"
    ELSE "Committed"

\* on_submit with the expiry test placed ahead of the test of user_id_redeemed.
RedeemCheckExpiryFirst(keys, key, t, roleFound) ==
    IF key \notin DOMAIN keys THEN "NotFound"
    ELSE IF t > keys[key].expiry_date.t THEN "Expired"
    ELSE IF keys[key].user_id_redeemed # NoUser THEN "AlreadyRedeemed"
    ELSE IF ~roleFound THEN "RoleNotFound"
    ELSE "Committed"

\* The checks of on_submit, in the order of the code. roleFound is whether
\* guild.get_role finds the premium role in the guild of the interaction.
RedeemCheck(keys, key, t, roleFound) ==
    IF key \notin DOMAIN keys THEN "NotFound"
    ELSE IF keys[key].user_id_redeemed # NoUser THEN "AlreadyRedeemed"
    ELSE IF t > keys[key].expiry_date.t THEN "Expired"
    ELSE IF ~roleFound THEN "RoleNotFound"
    ELSE "Committed"

\* on_submit with add_roles placed ahead of update_key_redeemed: the store is
\* as it was when the call is issued.
RedeemStoreAfterGrant(keys, key, user, outcome) == keys

\* on_submit with update_key_redeemed placed ahead of guild.get_role.
RedeemStoreBeforeRoleLookup(keys, key, user, outcome) ==
    IF outcome \in {"Committed", "RoleNotFound"}
    THEN UpdateKeyRedeemed(keys, key, user)
    ELSE keys

\* on_submit with the store update placed before its checks.
RedeemStoreBeforeChecks(keys, key, user, outcome) == UpdateKeyRedeemed(keys, key, user)

\* The dictionary on_submit leaves behind for a given outcome of its checks.
RedeemStore(keys, key, user, outcome) ==
    IF outcome = "Committed" THEN UpdateKeyRedeemed(keys, key, user) ELSE keys

\* on_submit from the deferral to the next await: the checks, then the store
\* update, its save and sync_db_to_json, with no suspension in between.
RedeemValidate(r, roleFound) ==
    /\ r \in 1..Len(reqs)
    /\ reqs[r].pc = "deferred"
    /\ LET outcome == RedeemCheck(km, reqs[r].key, now, roleFound)
           keys1 == RedeemStore(km, reqs[r].key, reqs[r].user, outcome)
       IN /\ km' = keys1
          /\ file' = IF outcome = "Committed"
                     THEN SyncDbToJson(SaveKeys(keys1), db, now)
                     ELSE file
          /\ reqs' = [reqs EXCEPT ![r].pc = IF outcome = "Committed" THEN "grant" ELSE "done",
                                   ![r].result = outcome]
          /\ redeemLog' = IF outcome = "Committed"
                          THEN [redeemLog EXCEPT ![reqs[r].key] = Append(@, reqs[r].user)]
                          ELSE redeemLog
    /\ UNCHANGED <<dur, api, now, generated, adm, db, members, role, boots, rc, views,
                   delPending>>

\* await modal_interaction.user.add_roles(premium_role) returns or raises.
RedeemGrant(r, ok) ==
    /\ r \in 1..Len(reqs)
    /\ reqs[r].pc = "grant"
    /\ ok => reqs[r].user \in members
    /\ role' = IF ok THEN role \cup {reqs[r].user} ELSE role
    /\ reqs' = [reqs EXCEPT ![r].pc = "done",
                            ![r].result = IF ok THEN "Ok" ELSE "RoleGrantFailed"]
    /\ UNCHANGED <<dur, api, now, generated, km, adm, file, db, members, boots, rc, views,
                   delPending, redeemLog>>

\* ------------------------------------------------------- the expiry task
\* The elements of a set of key ids as a sequence, in the order of the ids.
RECURSIVE InOrder(_)
InOrder(S) ==
    IF S = {} THEN <<>>
    ELSE LET k == CHOOSE x \in S : \A y \in S : x <= y
         IN <<k>> \o InOrder(S \ {k})

\* expired_keys of check_expired_keys: copies of the expired redeemed records.
ExpiredList(keys, t) ==
    LET ids == InOrder(GetExpiredKeys(keys, t))
    IN [i \in 1..Len(ids) |-> [key |-> ids[i], user |-> keys[ids[i]].user_id_redeemed]]

\* The for-loop without the except clause of the record: a failed call ends
\* the cycle.
RECURSIVE ScanStopsAfterFailure(_, _, _, _)
ScanStopsAfterFailure(keys, log, mem, holders) ==
    IF Len(log) = Len(keys) THEN [log |-> log, pc |-> "sleep"]
    ELSE IF log # <<>> /\ log[Len(log)] \in {"removefail", "logfail", "dmfail"}
    THEN [log |-> log, pc |-> "sleep"]
    ELSE LET user_id == keys[Len(log) + 1].user
         IN IF user_id \notin mem
            THEN ScanStopsAfterFailure(keys, Append(log, "nomember"), mem, holders)
            ELSE IF user_id \notin holders
                 THEN ScanStopsAfterFailure(keys, Append(log, "norole"), mem, holders)
                 ELSE [log |-> log, pc |-> "removing"]

\* The for-loop with a return in place of the continue after get_member.
RECURSIVE ScanStopsAtMissing(_, _, _, _)
ScanStopsAtMissing(keys, log, mem, holders) ==
    IF Len(log) = Len(keys) THEN [log |-> log, pc |-> "sleep"]
    ELSE LET user_id == keys[Len(log) + 1].user
         IN IF user_id \notin mem
            THEN [log |-> Append(log, "nomember"), pc |-> "sleep"]
            ELSE IF user_id \notin holders
                 THEN ScanStopsAtMissing(keys, Append(log, "norole"), mem, holders)
                 ELSE [log |-> log, pc |-> "removing"]

\* The for-loop without its test of premium_role in member.roles.
RECURSIVE ScanIgnoresRole(_, _, _, _)
ScanIgnoresRole(keys, log, mem, holders) ==
    IF Len(log) = Len(keys) THEN [log |-> log, pc |-> "sleep"]
    ELSE LET user_id == keys[Len(log) + 1].user
         IN IF user_id \notin mem
            THEN ScanIgnoresRole(keys, Append(log, "nomember"), mem, holders)
            ELSE [log |-> log, pc |-> "removing"]

\* The for-loop of check_expired_keys from record Len(log)+1 on, up to its
\* next await: a record whose redeemer is not found in the guild, or does not
\* hold the role, is passed over; the loop suspends at the first record whose
\* redeemer holds the role (await member.remove_roles).
RECURSIVE Scan(_, _, _, _)
Scan(keys, log, mem, holders) ==
    IF Len(log) = Len(keys) THEN [log |-> log, pc |-> "sleep"]
    ELSE LET user_id == keys[Len(log) + 1].user
         IN IF user_id \notin mem
            THEN Scan(keys, Append(log, "nomember"), mem, holders)
            ELSE IF user_id \notin holders
                 THEN Scan(keys, Append(log, "norole"), mem, holders)
                 ELSE [log |-> log, pc |-> "removing"]

\* The file after the part of a cycle that ends at pc: a cycle that reaches
\* its end runs sync_db_to_json once more before it sleeps.
CycleFile(f, d, t, pc) == IF pc = "sleep" THEN SyncDbToJson(f, d, t) ELSE f

\* The store after the part of a cycle that ends at pc: a cycle that gets
\* through its loop calls cleanup_expired_keys.
CycleStore(keys, t, pc) == IF pc = "sleep" THEN CleanupExpiredKeys(keys, t) ELSE keys

\* KeyManagement.on_ready after the cogs are loaded: one more task each time.
OnReady(t) ==
    /\ rc[t].pc = "off"
    /\ \A s \in Tasks : s < t => rc[s].pc # "off"
    /\ rc' = [rc EXCEPT ![t] = [pc |-> "sleep", keys |-> <<>>, log |-> <<>>]]
    /\ UNCHANGED <<dur, api, now, generated, km, adm, file, db, members, role, reqs, boots,
                   views, delPending, redeemLog>>

\* A cycle of check_expired_keys from its start to its first await.
RecWake(t) ==
    /\ rc[t].pc = "sleep"
    /\ LET f1 == SyncDbToJson(file, db, now)
           expired_keys == ExpiredList(km, now)
           sc == Scan(expired_keys, <<>>, members, role)
       IN /\ rc' = [rc EXCEPT ![t] = [pc |-> sc.pc, keys |-> expired_keys, log |-> sc.log]]
          /\ file' = CycleFile(f1, db, now, sc.pc)
          /\ km' = CycleStore(km, now, sc.pc)
    /\ UNCHANGED <<dur, api, now, generated, adm, db, members, role, reqs, boots, views,
                   delPending, redeemLog>>

\* await member.remove_roles(premium_role) returns or raises; the cycle then
\* runs on to its next await.
RecRemoveDone(t, ok) ==
    /\ rc[t].pc = "removing"
    /\ LET user_id == rc[t].keys[Len(rc[t].log) + 1].user
           holders == IF ok THEN role \ {user_id} ELSE role
           log1 == Append(rc[t].log, IF ok THEN "removed" ELSE "removefail")
           sc == Scan(rc[t].keys, log1, members, holders)
       IN /\ ok => user_id \in members
          /\ role' = holders
          /\ rc' = [rc EXCEPT ![t] = [pc |-> sc.pc, keys |-> rc[t].keys, log |-> sc.log]]
          /\ file' = CycleFile(file, db, now, sc.pc)
          /\ km' = CycleStore(km, now, sc.pc)
    /\ UNCHANGED <<dur, api, now, generated, adm, db, members, reqs, boots, views,
                   delPending, redeemLog>>

\* await member.remove_roles(premium_role) has returned and the message to the
\* log channel ("logfail") or the direct message to the member ("dmfail")
\* raises; the except clause of the record logs it and the cycle runs on to
\* its next await.
RecNotifyFailed(t, what) ==
    /\ rc[t].pc = "removing"
    /\ LET user_id == rc[t].keys[Len(rc[t].log) + 1].user
           holders == role \ {user_id}
           sc == Scan(rc[t].keys, Append(rc[t].log, what), members, holders)
       IN /\ user_id \in members
          /\ role' = holders
          /\ rc' = [rc EXCEPT ![t] = [pc |-> sc.pc, keys |-> rc[t].keys, log |-> sc.log]]
          /\ file' = CycleFile(file, db, now, sc.pc)
          /\ km' = CycleStore(km, now, sc.pc)
    /\ UNCHANGED <<dur, api, now, generated, adm, db, members, reqs, boots, views,
                   delPending, redeemLog>>

\* ------------------------------------------------------------ web, restart
\* GET /api/keys of the dashboard: sync_json_to_db.
WebSync ==
    /\ db' = SyncJsonToDb(file, db)
    /\ db' # db
    /\ UNCHANGED <<dur, api, now, generated, km, adm, file, members, role, reqs, boots, rc,
                   views, delPending, redeemLog>>

\* No redeem handler is between its save and its sync_db_to_json.
NoSyncPending == \A q \in 1..Len(reqs) : reqs[q].pc # "sync"

\* The dashboard is served by its own process, so a GET /api/keys can come
\* while the bot is between two statements. For the redeem handler that is
\* told apart here: first the checks, update_key_redeemed and its save ...
RedeemSave(r, roleFound) ==
    /\ r \in 1..Len(reqs)
    /\ reqs[r].pc = "deferred"
    /\ NoSyncPending
    /\ LET outcome == RedeemCheck(km, reqs[r].key, now, roleFound)
           keys1 == RedeemStore(km, reqs[r].key, reqs[r].user, outcome)
       IN /\ km' = keys1
          /\ file' = IF outcome = "Committed" THEN SaveKeys(keys1) ELSE file
          /\ reqs' = [reqs EXCEPT ![r].pc = IF outcome = "Committed" THEN "sync" ELSE "done",
                                   ![r].result = outcome]
          /\ redeemLog' = IF outcome = "Committed"
                          THEN [redeemLog EXCEPT ![reqs[r].key] = Append(@, reqs[r].user)]
                          ELSE redeemLog
    /\ UNCHANGED <<dur, api, now, generated, adm, db, members, role, boots, rc, views,
                   delPending>>

\* ... then the handler's sync_db_to_json.
RedeemSync(r) ==
    /\ r \in 1..Len(reqs)
    /\ reqs[r].pc = "sync"
    /\ file' = SyncDbToJson(file, db, now)
    /\ reqs' = [reqs EXCEPT ![r].pc = "grant"]
    /\ UNCHANGED <<dur, api, now, generated, km, adm, db, members, role, boots, rc, views,
                   delPending, redeemLog>>

\* The save and the sync_db_to_json of a handler have no await between them:
\* until the sync has run, nothing else of the bot runs, only the dashboard.
BotTick == NoSyncPending /\ Tick
BotGenerateKey(u, duration_seconds) == NoSyncPending /\ GenerateKey(u, duration_seconds)
BotRedeemSubmit(u, key) == NoSyncPending /\ RedeemSubmit(u, key)
BotRedeemGrant(r, ok) == NoSyncPending /\ RedeemGrant(r, ok)

BesideDashboard ==
    \/ WebSync
    \/ BotTick
    \/ \E u \in Users, d \in Durations : BotGenerateKey(u, d)
    \/ \E u \in Users, k \in Keys : BotRedeemSubmit(u, k)
    \/ \E r \in 1..MaxReq, roleFound \in BOOLEAN : RedeemSave(r, roleFound)
    \/ \E r \in 1..MaxReq : RedeemSync(r)
    \/ \E r \in 1..MaxReq, ok \in BOOLEAN : BotRedeemGrant(r, ok)

\* A submission of a process that has ended: nothing of it is left.
Gone == [pc |-> "done", user |-> NoUser, key |-> 0, result |-> "gone"]

\* The process is started again: importing app runs sync_json_to_db, both cogs
\* build their KeysDatabase from the file, and every handler and task of the
\* old process is gone.
RestartWithin(n) ==
    /\ boots < n
    /\ boots' = boots + 1
    /\ db' = SyncJsonToDb(file, db)
    /\ km' = LoadKeys(file)
    /\ adm' = LoadKeys(file)
    /\ reqs' = [r \in 1..Len(reqs) |-> Gone]
    /\ rc' = [t \in Tasks |-> TaskOff]
    /\ views' = {}
    /\ delPending' = {}
    /\ UNCHANGED <<dur, api, now, generated, file, members, role, redeemLog>>

Restart == RestartWithin(MaxBoots)

\* A restart in the runs that follow a file through two restarts.
StartAgain == RestartWithin(MaxStarts)

\* ------------------------------------------------------------ admin commands
\* What a KeyManagementView keeps of the key_data it was built with.
KeyData == [key : Keys, user_id_redeemed : Users \cup {NoUser}]

\* AdminCommands.key_info on a key its store holds: a view on that record.
KeyInfo(key) ==
    /\ key \in DOMAIN adm
    /\ views' = views \cup {[key |-> key, user_id_redeemed |-> adm[key].user_id_redeemed]}
    /\ views' # views
    /\ UNCHANGED <<dur, api, now, generated, km, adm, file, db, members, role, reqs, boots,
                   rc, delPending, redeemLog>>

\* DurationModal.on_submit with a duration that parses to duration_seconds.
ModifySubmit(v, duration_seconds) ==
    /\ v \in views
    /\ LET keys1 == UpdateKeyDuration(adm, v.key, duration_seconds,
                                      Dt(now + duration_seconds))
       IN /\ adm' = keys1
          /\ file' = SaveKeys(keys1)
    /\ UNCHANGED <<dur, api, now, generated, km, db, members, role, reqs, boots, rc, views,
                   delPending, redeemLog>>

\* ConfirmationView.confirm_button up to its first await: the delete and save.
DeleteConfirm(v) ==
    /\ v \in views
    /\ v.user_id_redeemed # NoUser
    /\ LET keys1 == DeleteKey(adm, v.key)
       IN /\ adm' = keys1
          /\ file' = SaveKeys(keys1)
    /\ delPending' = delPending \cup {v}
    /\ UNCHANGED <<dur, api, now, generated, km, db, members, role, reqs, boots, rc, views, redeemLog>>

\* Whether confirm_button goes on to remove the role of the redeemer.
DeleteRemovesRole(keys, redeemer_id, t) == ~HasActiveKeys(keys, redeemer_id, t)

\* confirm_button after the log message: the has_active_keys check and, when
\* it finds nothing, await member.remove_roles, which returns or raises.
DeleteCheck(v, ok) ==
    /\ v \in delPending
    /\ delPending' = delPending \ {v}
    /\ LET redeemer_id == v.user_id_redeemed
       IN role' = IF /\ DeleteRemovesRole(adm, redeemer_id, now)
                     /\ redeemer_id \in members
                     /\ redeemer_id \in role
                     /\ ok
                  THEN role \ {redeemer_id}
                  ELSE role
    /\ UNCHANGED <<dur, api, now, generated, km, adm, file, db, members, reqs, boots, rc, views, redeemLog>>

\* --------------------------------------------- the duration functions, called
\* parse_duration(duration_str) on a text of the caller's choice.
CallParseDuration ==
    /\ dur.n = 0
    /\ \E duration_str \in Texts :
          dur' = [n |-> 1, text |-> duration_str, parsed |-> ParseDuration(duration_str),
                  formatted |-> NoFormat]
    /\ UNCHANGED <<api, now, generated, km, adm, file, db, members, role, reqs, boots,
                   rc, views, delPending, redeemLog>>

\* format_duration(seconds) on the seconds that parse_duration returned.
CallFormatDuration ==
    /\ dur.n = 1
    /\ dur.parsed.error = "none"
    /\ dur' = [dur EXCEPT !.n = 2, !.formatted = FormatDuration(dur.parsed.seconds)]
    /\ UNCHANGED <<api, now, generated, km, adm, file, db, members, role, reqs, boots,
                   rc, views, delPending, redeemLog>>

DurationCalls ==
    \/ CallParseDuration
    \/ CallFormatDuration

\* ------------------------------------------------- KeysDatabase, called directly
\* The methods of one KeysDatabase (the store km and its file) called with
\* arguments of the caller's choice, as the cogs and sync_db_to_json call them.
DiskCall(op, key, ret, io) ==
    [n |-> api.n + 1, op |-> op, key |-> key, ret |-> ret, before |-> km, at |-> now,
     io |-> io, user |-> NoUser]

\* A call whose reading and writing of the file went through.
StoreCall(op, key, ret) == DiskCall(op, key, ret, "ok")

\* What the updating methods return: True when the key is in the dictionary.
Found(keys, key) == IF key \in DOMAIN keys THEN "True" ELSE "False"

\* add_key(key, duration_seconds, now + duration_seconds, user_id_created):
\* the record is stored under the key, the file written, the record returned.
StoreAdd(key, duration_seconds, user_id_created) ==
    /\ api.n < MaxCalls
    /\ km' = AddKey(km, key, duration_seconds, Dt(now + duration_seconds),
                    user_id_created, NoUser, now)
    /\ file' = SaveKeys(km')
    /\ api' = StoreCall("add", key, "record")
    /\ UNCHANGED <<dur, now, generated, adm, db, members, role, reqs, boots, rc, views,
                   delPending, redeemLog>>

\* update_key_redeemed(key, user_id_redeemed).
StoreRedeemed(key, user_id_redeemed) ==
    /\ api.n < MaxCalls
    /\ km' = UpdateKeyRedeemed(km, key, user_id_redeemed)
    /\ file' = IF key \in DOMAIN km THEN SaveKeys(km') ELSE file
    /\ api' = [StoreCall("redeemed", key, Found(km, key)) EXCEPT !.user = user_id_redeemed]
    /\ UNCHANGED <<dur, now, generated, adm, db, members, role, reqs, boots, rc, views,
                   delPending, redeemLog>>

\* update_key_duration(key, duration_seconds, now + duration_seconds).
StoreDuration(key, duration_seconds) ==
    /\ api.n < MaxCalls
    /\ km' = UpdateKeyDuration(km, key, duration_seconds, Dt(now + duration_seconds))
    /\ file' = IF key \in DOMAIN km THEN SaveKeys(km') ELSE file
    /\ api' = StoreCall("duration", key, Found(km, key))
    /\ UNCHANGED <<dur, now, generated, adm, db, members, role, reqs, boots, rc, views,
                   delPending, redeemLog>>

\* delete_key(key).
StoreDelete(key) ==
    /\ api.n < MaxCalls
    /\ km' = DeleteKey(km, key)
    /\ file' = IF key \in DOMAIN km THEN SaveKeys(km') ELSE file
    /\ api' = StoreCall("delete", key, Found(km, key))
    /\ UNCHANGED <<dur, now, generated, adm, db, members, role, reqs, boots, rc, views,
                   delPending, redeemLog>>

\* The dictionary after the method op with these arguments.
Mutated(keys, op, key, duration_seconds, user_id, t) ==
    CASE op = "add" -> AddKey(keys, key, duration_seconds, Dt(t + duration_seconds),
                              user_id, NoUser, t)
      [] op = "redeemed" -> UpdateKeyRedeemed(keys, key, user_id)
      [] op = "duration" -> UpdateKeyDuration(keys, key, duration_seconds,
                                              Dt(t + duration_seconds))
      [] op = "delete" -> DeleteKey(keys, key)

StoreOps == {"add", "redeemed", "duration", "delete"}

\* One of the four methods where its save_keys raises inside its try: the
\* except clause logs, and the method returns what it returns otherwise.
StoreSaveFails(op, key, duration_seconds, user_id, opened) ==
    /\ api.n < MaxCalls
    /\ op = "add" \/ key \in DOMAIN km
    /\ km' = Mutated(km, op, key, duration_seconds, user_id, now)
    /\ file' = SaveKeysFailed(file, opened)
    /\ api' = DiskCall(op, key, IF op = "add" THEN "record" ELSE "True", "savefail")
    /\ UNCHANGED <<dur, now, generated, adm, db, members, role, reqs, boots, rc, views,
                   delPending, redeemLog>>

\* load_keys: the file is read (ok) or the reading raises.
StoreLoad(ok) ==
    /\ api.n < MaxCalls
    /\ km' = LoadKeysTry(km, file, ok)
    /\ api' = DiskCall("load", 0, "None", IF ok THEN "ok" ELSE "loadfail")
    /\ UNCHANGED <<dur, now, generated, adm, file, db, members, role, reqs, boots, rc, views,
                   delPending, redeemLog>>

\* The methods with a file that may fail them.
StoreDisk ==
    \/ \E k \in Keys, d \in Durations, u \in Admins : StoreAdd(k, d, u)
    \/ \E k \in Keys, u \in Users : StoreRedeemed(k, u)
    \/ \E k \in Keys : StoreDelete(k)
    \/ \E op \in StoreOps, k \in Keys, d \in Durations, u \in Admins, opened \in BOOLEAN :
          StoreSaveFails(op, k, d, u, opened)
    \/ \E ok \in BOOLEAN : StoreLoad(ok)

StoreApi ==
    \/ Tick
    \/ \E k \in Keys, d \in Durations, u \in Admins : StoreAdd(k, d, u)
    \/ \E k \in Keys, u \in Users : StoreRedeemed(k, u)
    \/ \E k \in Keys, d \in Durations : StoreDuration(k, d)
    \/ \E k \in Keys : StoreDelete(k)

\* ------------------------------------------------------------ specification
\* Time, the guild, key generation and the redeem handler.
Lifecycle ==
    \/ Tick
    \/ \E u \in Users, d \in Durations : GenerateKey(u, d)
    \/ \E u \in Users, k \in Keys : RedeemSubmit(u, k)
    \/ \E r \in 1..MaxReq, roleFound \in BOOLEAN : RedeemValidate(r, roleFound)
    \/ \E r \in 1..MaxReq, ok \in BOOLEAN : RedeemGrant(r, ok)

\* The dashboard's sync and the restart of the process.
Persistence ==
    \/ WebSync
    \/ Restart

\* The check_expired_keys task.
Reconciler ==
    \/ \E t \in Tasks : OnReady(t)
    \/ \E t \in Tasks : RecWake(t)
    \/ \E t \in Tasks, ok \in BOOLEAN : RecRemoveDone(t, ok)
    \/ \E t \in Tasks, what \in {"logfail", "dmfail"} : RecNotifyFailed(t, what)

\* The /keyinfo view and its buttons.
Admin ==
    \/ \E k \in Keys : KeyInfo(k)
    \/ \E v \in KeyData, d \in Durations : ModifySubmit(v, d)
    \/ \E v \in KeyData : DeleteConfirm(v)
    \/ \E v \in KeyData, ok \in BOOLEAN : DeleteCheck(v, ok)

Next ==
    \/ Lifecycle
    \/ Persistence
    \/ Reconciler
    \/ Admin
    \/ \E u \in Users : Leave(u)

Spec == Init /\ [][Next]_vars

\* The redeem handler with the file, the table and restarts of the process.
\* The actions left out (the expiry task, the admin view, members leaving)
\* write role, rc, adm, views, delPending, members and file only.
SpecRedeem == Init /\ [][Lifecycle \/ Persistence]_vars

\* The task of the first ready event that reaches the cog.
FirstTask == CHOOSE t \in Tasks : \A s \in Tasks : t <= s

\* The check_expired_keys task when one ready event reaches the cog.
ReconcilerOne ==
    \/ OnReady(FirstTask)
    \/ RecWake(FirstTask)
    \/ \E ok \in BOOLEAN : RecRemoveDone(FirstTask, ok)
    \/ \E what \in {"logfail", "dmfail"} : RecNotifyFailed(FirstTask, what)

\* One expiry task beside the redeem handler, within one run of the process.
NextTask ==
    \/ Lifecycle
    \/ ReconcilerOne
    \/ \E u \in Users : Leave(u)

SpecTask == Init /\ [][NextTask]_vars

\* The expiry task where one ready event reaches the cog, every call on the
\* member succeeds and no member leaves the guild.
NextExpiry ==
    \/ Lifecycle
    \/ OnReady(FirstTask)
    \/ RecWake(FirstTask)
    \/ RecRemoveDone(FirstTask, TRUE)

\* The task is scheduled again after every sleep and every awaited call
\* returns.
FairTask ==
    /\ Init /\ [][NextExpiry]_vars
    /\ WF_vars(RecWake(FirstTask))
    /\ WF_vars(RecRemoveDone(FirstTask, TRUE))

\* Every ready event that reaches the cog starts a task of its own; members
\* stay in the guild.
SpecReady == Init /\ [][Lifecycle \/ Reconciler]_vars

\* A file that the admin commands have written, picked up by the next run of
\* the process and its check_expired_keys task; time stands still.
NextStarts ==
    \/ \E u \in Users, d \in Durations : GenerateKey(u, d)
    \/ WebSync
    \/ StartAgain
    \/ \E k \in Keys : KeyInfo(k)
    \/ \E v \in KeyData, d \in Durations : ModifySubmit(v, d)
    \/ OnReady(FirstTask)
    \/ RecWake(FirstTask)

SpecStarts == Init /\ [][NextStarts]_vars

\* Modify Duration to the longest duration beside the redeem handler and one
\* check_expired_keys task, where every call to Discord succeeds.
NextModify ==
    \/ Tick
    \/ \E u \in Users, d \in Durations : GenerateKey(u, d)
    \/ \E u \in Users, k \in Keys : RedeemSubmit(u, k)
    \/ \E r \in 1..MaxReq : RedeemValidate(r, TRUE)
    \/ \E r \in 1..MaxReq : RedeemGrant(r, TRUE)
    \/ Restart
    \/ \E k \in Keys : KeyInfo(k)
    \/ \E v \in KeyData : ModifySubmit(v, MaxDur)
    \/ OnReady(FirstTask)
    \/ RecWake(FirstTask)
    \/ RecRemoveDone(FirstTask, TRUE)

SpecModify == Init /\ [][NextModify]_vars

\* The redeem handler with the dashboard's requests between its statements.
SpecWeb == Init /\ [][BesideDashboard]_vars

\* parse_duration and format_duration on the texts of Texts.
SpecDuration == Init /\ [][DurationCalls]_vars

\* One KeysDatabase under direct calls of its methods.
SpecStore == Init /\ [][StoreApi]_vars

\* The first redeem request of a run of the model.
RedeemFirst(u, key) == reqs = <<>> /\ RedeemSubmit(u, key)

\* /generate on typed texts, the redeem handler, Modify Duration and the
\* dashboard's sync, across two restarts of the process.
NextRecords ==
    \/ Tick
    \/ \E u \in Users, duration_str \in GenerateTexts : GenerateKeyFrom(u, duration_str)
    \/ \E u \in Users, k \in Keys : RedeemFirst(u, k)
    \/ \E r \in 1..MaxReq : RedeemValidate(r, TRUE)
    \/ WebSync
    \/ StartAgain
    \/ \E k \in Keys : KeyInfo(k)
    \/ \E v \in KeyData : ModifySubmit(v, MaxDur)

SpecRecords == Init /\ [][NextRecords]_vars

\* One KeysDatabase whose file can fail to be read or written.
SpecDisk == Init /\ [][StoreDisk]_vars

\* The admin view beside the redeem handler, across restarts of the process.
SpecAdmin == Init /\ [][Lifecycle \/ Restart \/ Admin]_vars

\* ------------------------------------------------------------------ claims
Succeeded == {"Committed", "Ok", "RoleGrantFailed"}
Failed == {"NotFound", "AlreadyRedeemed", "Expired"}

\* C1: once a redeem of a key has succeeded, every later redeem of that key
\* fails and the first redeemer stays: no key has a second successful redeem,
\* and a key that is in the store is redeemed by the first user logged for it.
C1_SecondRedeemFails ==
    \A k \in Keys :
        /\ Len(redeemLog[k]) <= 1
        /\ (Len(redeemLog[k]) = 1 /\ k \in DOMAIN km /\ km[k].user_id_redeemed # NoUser)
              => km[k].user_id_redeemed = redeemLog[k][1]

\* C2: user_id_redeemed of a record only goes from None to a user id: in no
\* step does a set value become None or another user, in the store of the
\* key-management cog and in the file.
RedeemedKept(old, new) ==
    \A k \in DOMAIN old \cap DOMAIN new :
        old[k].user_id_redeemed # NoUser
            => new[k].user_id_redeemed = old[k].user_id_redeemed

C2_RedeemedByNeverCleared ==
    [][RedeemedKept(km, km') /\ RedeemedKept(file, file')]_vars

\* C3: of the redeem requests of one process on the same key, at most one
\* succeeds, however their handlers interleave.
C3_AtMostOneSucceeds ==
    \A r1, r2 \in 1..Len(reqs) :
        (r1 # r2 /\ reqs[r1].key = reqs[r2].key /\ reqs[r1].result \in Succeeded)
            => reqs[r2].result \notin Succeeded

\* Request 1 was submitted first and was still waiting when request 2, for the
\* same key, went through its checks and committed; request 1 then failed.
C3_Witness ==
    /\ Len(reqs) = 2
    /\ reqs[1].key = reqs[2].key
    /\ reqs[2].pc = "grant"
    /\ reqs[1].result = "AlreadyRedeemed"

\* C4: a redeem of an unredeemed record with expiry_date <= now is answered
\* Expired, and a redeem commits only when expiry_date > now.
C4_ExpiredAtBoundary ==
    [][\A r \in 1..Len(reqs) :
          (/\ reqs[r].pc = "deferred"
           /\ reqs'[r].result \in Succeeded \cup Failed \cup {"RoleNotFound"}
           /\ reqs[r].key \in DOMAIN km
           /\ km[reqs[r].key].user_id_redeemed = NoUser)
          => /\ km[reqs[r].key].expiry_date.t <= now => reqs'[r].result = "Expired"
             /\ reqs'[r].result = "Committed" => km[reqs[r].key].expiry_date.t > now]_vars

\* C5: a redeem answered NotFound, AlreadyRedeemed or Expired changes neither
\* store, file nor table, grants no role and ends the handler.
C5_FailedRedeemChangesNothing ==
    [][\A r \in 1..Len(reqs) :
          (reqs[r].pc = "deferred" /\ reqs'[r].result \in Failed)
          => /\ km' = km /\ adm' = adm /\ file' = file /\ db' = db
             /\ role' = role /\ redeemLog' = redeemLog
             /\ reqs'[r].pc = "done"]_vars

\* An expired key that nobody redeemed was refused and is still unredeemed.
C5_Witness ==
    \E r \in 1..Len(reqs) :
        /\ reqs[r].result = "Expired"
        /\ reqs[r].key \in DOMAIN km
        /\ km[reqs[r].key].user_id_redeemed = NoUser
        /\ redeemLog[reqs[r].key] = <<>>
        /\ reqs[r].user \notin role

\* C6: when the role grant of a redeem is issued, and after it has returned or
\* failed, the record is redeemed by that user in the store, and at the moment
\* the grant is issued also in the file: the commit and its persistence come
\* first and a failed grant rolls nothing back.
C6_CommitBeforeGrant ==
    \A r \in 1..Len(reqs) :
        reqs[r].result \in Succeeded
            => /\ reqs[r].key \in DOMAIN km
               /\ km[reqs[r].key].user_id_redeemed = reqs[r].user
               /\ reqs[r].pc = "grant"
                     => /\ reqs[r].key \in DOMAIN file
                        /\ file[reqs[r].key].user_id_redeemed = reqs[r].user

\* C7: the expiry task removes the role only from a member who has no
\* redeemed record with expiry_date > now: a step of the task that takes the
\* role from a member finds no active key of that member in the store.
C7_RemovesOnlyWithoutActiveKey ==
    [][\A t \in Tasks, u \in Users :
          (rc'[t] # rc[t] /\ u \in role /\ u \notin role')
              => ~HasActiveKeys(km, u, now)]_vars

\* C8: the delete of a redeemed key takes the role from the redeemer only when
\* the redeemer has no redeemed record with expiry_date > now, in whichever
\* cog's store that record was created and redeemed.
C8_DeleteKeepsRoleOfActiveHolder ==
    [][\A v \in delPending :
          (/\ v \notin delPending'
           /\ v.user_id_redeemed \in role
           /\ v.user_id_redeemed \notin role')
              => ~HasActiveKeys(DeleteKey(km, v.key), v.user_id_redeemed, now)]_vars

\* C9: once the task is started, a member of the guild who holds the role, has
\* redeemed a key that is expired and has no active key is in the end without
\* the role.
C9_ExpiredRoleRemoved ==
    \A u \in Users :
        (/\ \E t \in Tasks : rc[t].pc # "off"
         /\ \E k \in DOMAIN km : /\ km[k].user_id_redeemed = u
                                 /\ km[k].expiry_date.t <= now
         /\ u \in role
         /\ u \in members
         /\ ~HasActiveKeys(km, u, now))
        ~> (u \notin role)

\* A cycle of the task took the role from the redeemer of an expired key.
C9_Witness ==
    \E t \in Tasks : \E i \in 1..Len(rc[t].log) :
        /\ rc[t].log[i] = "removed"
        /\ km[rc[t].keys[i].key].user_id_redeemed = rc[t].keys[i].user
        /\ km[rc[t].keys[i].key].expiry_date.t <= now
        /\ rc[t].keys[i].user \in members \ role

\* C10: a cycle that has reached its sleep has gone through every record of
\* its list, those after a record whose member was not found included.
C10_LookupFailureDoesNotStopCycle ==
    \A t \in Tasks :
        rc[t].pc = "sleep"
            => /\ Len(rc[t].log) = Len(rc[t].keys)
               /\ \A i \in 1..Len(rc[t].log) :
                     rc[t].log[i] \in {"nomember", "norole", "removed", "removefail",
                                       "logfail", "dmfail"}

\* A finished cycle passed over a record whose member was not found and then
\* took the role from the redeemer of a later record.
C10_Witness ==
    \E t \in Tasks :
        /\ rc[t].pc = "sleep"
        /\ \E i, j \in 1..Len(rc[t].log) :
              /\ i < j
              /\ rc[t].log[i] = "nomember"
              /\ rc[t].log[j] = "removed"

C12_SingleReconcilerTask ==
    \A t1, t2 \in Tasks :
        t1 # t2 => ~(rc[t1].pc = "removing" /\ rc[t2].pc = "removing")

C14_ModifyResetsExpiryFromCallTime ==
    [][(boots' = boots /\ DOMAIN adm' = DOMAIN adm /\ adm' # adm)
          => /\ \E k \in DOMAIN adm, d \in Durations :
                   adm' = [adm EXCEPT ![k].duration_seconds = d,
                                      ![k].expiry_date = Dt(now + d)]
             /\ file' = SaveKeys(adm')]_vars

\* A redeemed record created earlier now expires at the time of the call plus
\* its new duration, which is not what it was generated with.
C14_Witness ==
    \E k \in DOMAIN adm \cap DOMAIN km :
        /\ adm[k].user_id_redeemed # NoUser
        /\ adm[k].created_at.t < now
        /\ adm[k].expiry_date.t = now + adm[k].duration_seconds
        /\ adm[k].expiry_date.t # km[k].expiry_date.t
        /\ adm[k].user_id_created = km[k].user_id_created
        /\ adm[k].user_id_redeemed = km[k].user_id_redeemed

\* C15: a delete called on an id that the admin store does not hold ends with
\* NotFound: its handler does not go on to the role check of the redeemer.
C15_AbsentIdIsNotFound ==
    [][\A v \in KeyData :
          (v.key \notin DOMAIN adm /\ v \notin delPending /\ boots' = boots)
              => v \notin delPending']_vars

\* C16: add_key on a key that is in the store fails with DuplicateKey and
\* leaves the store, and so the record under that key, as it was.
C16_AddOfPresentIdFails ==
    [][(api' # api /\ api'.op = "add" /\ api'.key \in DOMAIN km)
          => api'.ret = "DuplicateKey" /\ km' = km]_vars

\* C17: after every call, has_active_keys(user) is true exactly when some
\* record redeemed by the user expires after the current time; and when the
\* call deleted the only such record of the user, has_active_keys(user) is
\* false.
C17_HasActiveIffUnexpiredRedeemedRecord ==
    [][\A u \in Users :
          /\ HasActiveKeys(km', u, now') <=>
                 \E k \in DOMAIN km' :
                     km'[k].user_id_redeemed = u /\ km'[k].expiry_date.t > now'
          /\ ( /\ api' # api
               /\ api'.op = "delete"
               /\ {k \in DOMAIN km :
                      km[k].user_id_redeemed = u /\ km[k].expiry_date.t > now}
                  = {api'.key} )
             => ~HasActiveKeys(km', u, now')]_vars

\* A delete call has just removed a key of a user who had an active key
\* before the call and has none after it.
C17_Witness ==
    /\ api.op = "delete"
    /\ api.ret = "True"
    /\ api.at = now
    /\ \E u \in Users :
          /\ HasActiveKeys(api.before, u, now)
          /\ api.before[api.key].user_id_redeemed = u
          /\ ~HasActiveKeys(km, u, now)

\* C18: there is one mapping from key to record: the store the generate and
\* redeem handlers and the check_expired_keys task work on and the store the
\* admin commands work on hold the same keys with the same records, so a key
\* made by generate is there for keyinfo, and a redemption, a new duration
\* or a deletion made through the one is what the other sees.
C18_OneAuthoritativeMapping == km = adm

\* C19: sync_db_to_json only adds records: when generate or redeem has
\* changed the store, saved it and run sync_db_to_json, every key of the
\* store is in the file with every field, user_id_redeemed included, as the
\* save wrote it.
C19_SyncDbToJsonAddsOnly ==
    [][(km' # km /\ boots' = boots)
          => \A k \in DOMAIN km' :
                k \in DOMAIN file' /\ file'[k] = SaveKeys(km')[k]]_vars

\* C20: after a sync_json_to_db that wrote to the table, every key of the
\* file has a row with the file's user_id_redeemed, and the rows there were
\* before differ from what they were in user_id_redeemed at most.
C20_SyncJsonToDbPropagatesRedeemer ==
    [][db' # db
          => /\ \A k \in DOMAIN file :
                   k \in DOMAIN db'
                   /\ db'[k].user_id_redeemed = file[k].user_id_redeemed
             /\ \A k \in DOMAIN db :
                   k \in DOMAIN db'
                   /\ db'[k] = [db[k] EXCEPT
                                   !.user_id_redeemed = db'[k].user_id_redeemed]]_vars

\* C21: whenever a key of the table that the file lacked is put into the
\* file, as sync_db_to_json does, the key is in the store the redeem handler
\* looks keys up in.
C21_InboundSyncReachesStore ==
    [][\A k \in DOMAIN db :
          (k \notin DOMAIN file /\ k \in DOMAIN file' /\ boots' = boots)
              => k \in DOMAIN km']_vars

\* C22: when a cycle of check_expired_keys has come to its end, every key of
\* the store has a row in the table, with the store's user_id_redeemed.
C22_CycleEndsWithTableUpToDate ==
    [][(rc[FirstTask].pc = "removing" /\ rc'[FirstTask].pc = "sleep")
          => \A k \in DOMAIN km' :
                k \in DOMAIN db'
                /\ db'[k].user_id_redeemed = km'[k].user_id_redeemed]_vars

\* C23: when update_key_duration or delete_key of the admin commands has
\* returned, the file holds the store the redeem handler and the
\* check_expired_keys task work on: loading it gives the keys of that store
\* with the same duration_seconds, expiry_date, user_id_created and
\* user_id_redeemed.
C23_FileHoldsTheStoreInUse ==
    [][(adm' # adm /\ boots' = boots)
          => /\ DOMAIN LoadKeys(file') = DOMAIN km'
             /\ \A k \in DOMAIN km' :
                   /\ LoadKeys(file')[k].duration_seconds = km'[k].duration_seconds
                   /\ LoadKeys(file')[k].expiry_date = km'[k].expiry_date
                   /\ LoadKeys(file')[k].user_id_created = km'[k].user_id_created
                   /\ LoadKeys(file')[k].user_id_redeemed = km'[k].user_id_redeemed]_vars

\* C24: a load_keys whose reading of the file fails leaves the empty store and
\* returns; a method whose save_keys fails leaves the store as the method
\* made it and returns what it returns otherwise.
C24_DiskFailureIsContained ==
    [][api' # api =>
          /\ api'.ret # "raise"
          /\ api'.io = "loadfail" => km' = EmptyStore
          /\ api'.io = "savefail" =>
                \E d \in Durations, u \in Admins :
                    km' = Mutated(km, api'.op, api'.key, d, u, now)]_vars

\* A load has failed on a store that held a key.
C24_Witness ==
    /\ api.io = "loadfail"
    /\ api.before # EmptyStore
    /\ km = EmptyStore

\* The grammar of duration texts: one or more segments <digits><unit>, the
\* unit in either case, and the seconds the segments add up to.
UnitChar == {"s", "m", "h", "d", "w", "D"}

SecondsOf(c) ==
    CASE c = "s" -> 1
      [] c = "m" -> 60
      [] c = "h" -> 3600
      [] c \in {"d", "D"} -> 86400
      [] c = "w" -> 604800

RECURSIVE Segments(_)
Segments(text) ==
    \/ text = <<>>
    \/ LET e == RunEnd(text, 1)
       IN /\ e > 1
          /\ e <= Len(text)
          /\ text[e] \in UnitChar
          /\ Segments(SubSeq(text, e + 1, Len(text)))

InGrammar(text) == text # <<>> /\ Segments(text)

RECURSIVE GrammarSum(_)
GrammarSum(text) ==
    IF text = <<>> THEN 0
    ELSE LET e == RunEnd(text, 1)
         IN IntOf(SubSeq(text, 1, e - 1)) * SecondsOf(text[e])
            + GrammarSum(SubSeq(text, e + 1, Len(text)))

\* C25: for a text of the grammar, what parse_duration returns is the sum of
\* its segments' seconds, and it does return when that sum is positive.
C25_ParseIsSumOfSegments ==
    (dur.n >= 1 /\ InGrammar(dur.text)) =>
        /\ GrammarSum(dur.text) > 0 => dur.parsed = Seconds(GrammarSum(dur.text))
        /\ dur.parsed.error = "none" => dur.parsed.seconds = GrammarSum(dur.text)

\* "1w2D" has been parsed to a week and two days.
C25_Witness ==
    /\ dur.n = 1
    /\ dur.text = <<"1", "w", "2", "D">>
    /\ dur.parsed = Seconds(777600)

\* C26: parse_duration returns no value below 1: a text of the grammar whose
\* segments add up to zero fails as NonPositive, with one segment or several,
\* and a text that holds no segment at all fails as InvalidFormat.
C26_ParseNeverReturnsNonPositive ==
    dur.n >= 1 =>
        /\ dur.parsed.error = "none" => dur.parsed.seconds > 0
        /\ (InGrammar(dur.text) /\ GrammarSum(dur.text) = 0)
              => dur.parsed.error = "NonPositive"
        /\ (\A i \in 1..(Len(dur.text) - 1) :
               ~(dur.text[i] \in Digit /\ dur.text[i + 1] \in UnitChar))
              => dur.parsed.error = "InvalidFormat"

\* C27: a text that is not wholly made of segments fails as InvalidFormat,
\* also when it holds two segments or more (texts without blanks).
C27_ParseRejectsTextOutsideGrammar ==
    (dur.n >= 1 /\ ~InGrammar(dur.text) /\ \A i \in 1..Len(dur.text) : dur.text[i] # " ")
        => dur.parsed.error = "InvalidFormat"

\* C28: for a text of one segment with a number of 1 or more, what
\* format_duration makes of the parsed seconds denotes those seconds, in the
\* largest unit that fits, with the plural s exactly when the count is not 1.
C28_FormatDenotesParsedSeconds ==
    (dur.n = 2 /\ InGrammar(dur.text) /\ RunEnd(dur.text, 1) = Len(dur.text))
        => LET unit_seconds == CASE dur.formatted.unit = "second" -> 1
                                 [] dur.formatted.unit = "minute" -> 60
                                 [] dur.formatted.unit = "hour" -> 3600
                                 [] dur.formatted.unit = "day" -> 86400
                                 [] dur.formatted.unit = "week" -> 604800
           IN /\ dur.formatted.count * unit_seconds = dur.parsed.seconds
              /\ \A bigger \in {60, 3600, 86400, 604800} :
                    bigger > unit_seconds => dur.parsed.seconds < bigger
              /\ dur.formatted.plural <=> dur.formatted.count # 1

\* C29: a record that is redeemed and expired stays so while it exists: no
\* step changes its redeemer or gives it an expiry in the future.
C29_RedeemedExpiredIsTerminal ==
    [][\A k \in DOMAIN adm :
          ( /\ adm[k].user_id_redeemed # NoUser
            /\ adm[k].expiry_date.t <= now
            /\ k \in DOMAIN adm'
            /\ boots' = boots )
          => /\ adm'[k].user_id_redeemed = adm[k].user_id_redeemed
             /\ adm'[k].expiry_date.t <= now']_vars

\* C30: what a cycle of check_expired_keys takes as expired follows the
\* expiry_date that Modify Duration has set, which is the one in the admin
\* commands' store: a key of that store is on the cycle's list only if that
\* expiry_date has passed, and every redeemed key of that store whose
\* expiry_date has passed is on the list.
C30_TaskFollowsModifiedExpiry ==
    [][(rc[FirstTask].pc = "sleep" /\ rc'[FirstTask] # rc[FirstTask])
          => LET listed == {rc'[FirstTask].keys[i].key :
                               i \in 1..Len(rc'[FirstTask].keys)}
             IN \A k \in DOMAIN adm :
                   /\ k \in listed => adm[k].expiry_date.t <= now
                   /\ (adm[k].user_id_redeemed # NoUser /\ adm[k].expiry_date.t <= now)
                         => k \in listed]_vars

\* C31: the checks of a redeem are applied in the order not found, already
\* redeemed, expired: a redeem of a key the store lacks is answered NotFound,
\* and a redeem of a record that is redeemed is answered AlreadyRedeemed, also
\* when its expiry_date has passed (a request cut off by a restart of the
\* process is not answered at all).
C31_RedeemedBeforeExpired ==
    [][\A r \in 1..Len(reqs) :
          (reqs[r].pc = "deferred" /\ reqs'[r].pc # "deferred" /\ boots' = boots)
          => /\ reqs[r].key \notin DOMAIN km => reqs'[r].result = "NotFound"
             /\ (/\ reqs[r].key \in DOMAIN km
                 /\ km[reqs[r].key].user_id_redeemed # NoUser)
                   => reqs'[r].result = "AlreadyRedeemed"]_vars

\* A redeem of a record that is redeemed and past its expiry_date was answered
\* AlreadyRedeemed; the other request is the one that had redeemed it.
C31_Witness ==
    \E r1, r2 \in 1..Len(reqs) :
        /\ reqs[r1].result = "AlreadyRedeemed"
        /\ reqs[r1].key \in DOMAIN km
        /\ km[reqs[r1].key].expiry_date.t < now
        /\ reqs[r2].key = reqs[r1].key
        /\ reqs[r2].result \in Succeeded
        /\ km[reqs[r1].key].user_id_redeemed = reqs[r2].user

TermsOf(k, s1, s2, s3, s4) ==
    {<<s[k].duration_seconds, s[k].expiry_date.t>> :
        s \in {x \in {s1, s2, s3, s4} : k \in DOMAIN x}}

C35_UpdateOfAbsentOrPresentKey ==
    [][(api' # api /\ api'.op \in {"redeemed", "duration"})
          => IF api'.key \notin DOMAIN km
             THEN api'.ret = "False" /\ km' = km /\ file' = file
             ELSE /\ api'.ret = "True"
                  /\ api'.op = "redeemed"
                        => /\ km' = [km EXCEPT ![api'.key].user_id_redeemed = api'.user]
                           /\ file' = SaveKeys(km')]_vars

\* update_key_redeemed has just returned True on a record that another user
\* had redeemed and whose expiry_date had passed; the record now names the
\* user of this call.
C35_Witness ==
    /\ api.op = "redeemed"
    /\ api.ret = "True"
    /\ api.before[api.key].user_id_redeemed \notin {NoUser, api.user}
    /\ api.before[api.key].expiry_date.t < api.at
    /\ km[api.key].user_id_redeemed = api.user

\* C36: what one component has committed and written to the file is not
\* undone by a later write of another component or of a sync: a key of the
\* file stays in the file unless the admin commands delete it in that step,
\* its user_id_redeemed stays unless the redeem handler commits a redemption
\* of it in that step, and its expiry_date and duration_seconds stay unless
\* Modify Duration changes them in that step.
C36_PersistedChangeIsNotUndone ==
    [][\A k \in DOMAIN file :
          /\ k \notin DOMAIN file' => (k \in DOMAIN adm /\ k \notin DOMAIN adm')
          /\ k \in DOMAIN file' =>
                /\ file'[k].user_id_redeemed # file[k].user_id_redeemed
                      => /\ k \in DOMAIN km /\ k \in DOMAIN km'
                         /\ km[k].user_id_redeemed = NoUser
                         /\ km'[k].user_id_redeemed = file'[k].user_id_redeemed
                /\ (\/ file'[k].expiry_date # file[k].expiry_date
                    \/ file'[k].duration_seconds # file[k].duration_seconds)
                      => /\ k \in DOMAIN adm /\ k \in DOMAIN adm'
                         /\ adm'[k] # adm[k]
                         /\ file'[k] = SaveKeys(adm')[k]]_vars

\* C37: add_roles is issued for a user only by a redeem request of that user
\* that has just set user_id_redeemed of its key, until then None, to that
\* user in the store; the role is given only by such a request, whose key is
\* still redeemed by that user in the store; and a request that fails a check
\* ends without a role call.
C37_GrantOnlyAfterCommit ==
    [][/\ \A r \in 1..Len(reqs) :
             /\ (reqs[r].pc = "deferred" /\ reqs'[r].pc = "grant")
                   => /\ reqs[r].key \in DOMAIN km
                      /\ km[reqs[r].key].user_id_redeemed = NoUser
                      /\ km'[reqs[r].key].user_id_redeemed = reqs[r].user
             /\ (/\ reqs[r].pc = "deferred"
                 /\ reqs'[r].result \in Failed \cup {"RoleNotFound"})
                   => reqs'[r].pc = "done" /\ role' = role
       /\ \A u \in role' \ role :
             \E r \in 1..Len(reqs) :
                 /\ reqs[r].pc = "grant"
                 /\ reqs'[r].pc = "done"
                 /\ reqs[r].user = u
                 /\ reqs[r].key \in DOMAIN km
                 /\ km[reqs[r].key].user_id_redeemed = u]_vars

\* One request has committed and its user has the role; the other, by another
\* user, failed a check and that user has no role.
C37_Witness ==
    \E r1, r2 \in 1..Len(reqs) :
        /\ reqs[r1].result = "Ok"
        /\ reqs[r1].user \in role
        /\ km[reqs[r1].key].user_id_redeemed = reqs[r1].user
        /\ reqs[r2].result \in Failed
        /\ reqs[r2].user # reqs[r1].user
        /\ reqs[r2].user \notin role

\* C38: a redeem that finds no premium role in the guild ends before
\* update_key_redeemed: the record is unredeemed and stays so, no store, file
\* or table changes, no role is given, and the same redeem with the role in
\* place would commit.
C38_RoleNotFoundChangesNothing ==
    [][\A r \in 1..Len(reqs) :
          (reqs[r].pc = "deferred" /\ reqs'[r].result = "RoleNotFound")
          => /\ reqs'[r].pc = "done"
             /\ reqs[r].key \in DOMAIN km'
             /\ km'[reqs[r].key].user_id_redeemed = NoUser
             /\ km' = km /\ adm' = adm /\ file' = file /\ db' = db
             /\ role' = role /\ redeemLog' = redeemLog
             /\ RedeemCheck(km', reqs[r].key, now', TRUE) = "Committed"]_vars

\* A redeem was refused for want of the role; a later redeem of the same key
\* has committed.
C38_Witness ==
    /\ Len(reqs) = 2
    /\ reqs[1].result = "RoleNotFound"
    /\ reqs[2].key = reqs[1].key
    /\ reqs[2].result \in Succeeded
    /\ km[reqs[2].key].user_id_redeemed = reqs[2].user
    /\ redeemLog[reqs[2].key] = <<reqs[2].user>>

\* C39: the expiry task touches only members who hold the role at that
\* moment: whenever a cycle comes to a record and calls remove_roles for it,
\* the redeemer is a member holding the role, and a record whose redeemer is
\* a member without the role is passed over ("norole") with no call and no
\* notification. So a member whose role a cycle has removed is passed over
\* by every cycle that comes to the record afterwards, until a redeem gives
\* the role back.
C39_OnlyRoleHoldersAreTouched ==
    [][\A t \in Tasks :
          rc'[t] # rc[t] =>
             /\ rc'[t].pc = "removing"
                   => rc'[t].keys[Len(rc'[t].log) + 1].user \in role' \cap members'
             /\ \A i \in 1..Len(rc'[t].log) :
                   (rc[t].pc = "sleep" \/ i > Len(rc[t].log) + 1)
                   => /\ rc'[t].log[i] \in {"norole", "nomember"}
                      /\ rc'[t].log[i] = "norole"
                            <=> rc'[t].keys[i].user \in members' \ role']_vars

\* A member redeemed a key and got the role; a cycle removed it after the
\* expiry; the cycle now finished has passed the member over.
C39_Witness ==
    /\ rc[FirstTask].pc = "sleep"
    /\ rc[FirstTask].log = <<"norole">>
    /\ rc[FirstTask].keys[1].user \in members \ role
    /\ \E r \in 1..Len(reqs) :
          /\ reqs[r].result = "Ok"
          /\ reqs[r].user = rc[FirstTask].keys[1].user
          /\ reqs[r].key = rc[FirstTask].keys[1].key

\* C40: save_keys followed by load_keys is a round trip: a load_keys that
\* reads the file its own store has saved leaves every record as it was,
\* expiry_date and created_at included, each the same timestamp of the same
\* kind.
C40_SaveThenLoadIsRoundTrip ==
    [][(api' # api /\ api'.op = "load" /\ api'.io = "ok" /\ file = SaveKeys(km))
          => km' = km]_vars

====
